---------------------------- MODULE Spec2Model ----------------------------
(***************************************************************************)
(* SAE Bakery - SOP API (src/main.py, src/schemas.py).                     *)
(*                                                                         *)
(* The document store is the record db, one field per collection, each     *)
(* collection the sequence of its documents in insertion order.  Every     *)
(* request handler is translated once, as a step operator                  *)
(*      handler(d, fr)  ->  [db |-> d', fr |-> fr']                        *)
(* that performs ONE call to the store (and the local computation that     *)
(* follows it) from the frame's position fr.pc.  Run(d, fr) drives a       *)
(* handler to completion; the sequential specifications take Run as one    *)
(* action per request, the concurrent specification interleaves the steps  *)
(* of several requests.                                                    *)
(*                                                                         *)
(* Strings that the code takes apart (the codes next_code reads) are       *)
(* sequences of one-character strings; messages are sequences of words.    *)
(* Fields that no handler reads and no claim mentions (tanggal, catatan,   *)
(* keterangan, harga_*, grand_total, alamat, nomor_hp, name, is_active,    *)
(* timestamps) are left out of the documents.                              *)
(***************************************************************************)
EXTENDS Integers, Sequences, FiniteSets, TLC

VARIABLES
    db,       \* the document store: collection name -> documents
    started,  \* the startup event has run in the current process
    procs     \* the frame of each worker of the concurrent specification

vars == <<db, started, procs>>

---------------------------------------------------------------------------
(* Bounds of the model.                                                    *)

\* most documents the four transaction collections hold together
MaxTx == 2
\* quantities of a request line are drawn from (-1)..MaxQty
MaxQty == 2
\* most lines of a Pembelian / Penjualan request
MaxLines == 2
\* workers that serve requests at the same time
NWorkers == 2
\* most codes the store holds when the code generator is first asked
MaxStored == 2
\* most characters after the prefix of a stored code
MaxSuffix == 3

---------------------------------------------------------------------------
(* Program constants.                                                      *)

SECRET_KEY == "supersecretkey"
AdminEmail == "admin@sae-bakery.local"
AdminPassword == "admin123"

---------------------------------------------------------------------------
(* Sequences.                                                              *)

Range(s) == {s[i] : i \in 1..Len(s)}

RECURSIVE SumSeq(_)
SumSeq(s) == IF s = <<>> THEN 0 ELSE Head(s) + SumSeq(Tail(s))

\* the sequences over S of length lo..hi
SeqsOf(S, lo, hi) == UNION {[1..n -> S] : n \in lo..hi}

---------------------------------------------------------------------------
(* The store: pymongo's find / find_one / insert_one / update_one.         *)

collection(d, name) == d[name]

\* collection.find({f: v}): the matching documents, in natural order
find(coll, f, v) == SelectSeq(coll, LAMBDA doc : doc[f] = v)

\* collection.find_one({f: v}) is Head(find(..)), None when find(..) = <<>>
found(coll, f, v) == find(coll, f, v) # <<>>

insert_one(d, name, doc) == [d EXCEPT ![name] = Append(@, doc)]

\* database.create_document(name, model): inserts the model's fields
create_document(d, name, doc) == insert_one(d, name, doc)

\* the index of the first document of coll with doc[f] = v (0: none)
FirstIndex(coll, f, v) ==
    IF \E i \in 1..Len(coll) : coll[i][f] = v
    THEN CHOOSE i \in 1..Len(coll) :
            /\ coll[i][f] = v
            /\ \A j \in 1..(i - 1) : coll[j][f] # v
    ELSE 0

\* (claim C1's mutant: "$set" where the code has "$inc")
update_one_set(d, k, delta, satuan, nama) ==
    LET i == FirstIndex(d.stock, "kode_barang", k)
    IN  IF i = 0
        THEN insert_one(d, "stock",
                 [kode_barang |-> k, stok |-> delta,
                  satuan |-> satuan, nama_barang |-> nama])
        ELSE [d EXCEPT !.stock[i].stok = delta]

\* (claim C16's mutant: name and unit go under "$set", not "$setOnInsert")
update_one_resync(d, k, delta, satuan, nama) ==
    LET i == FirstIndex(d.stock, "kode_barang", k)
    IN  IF i = 0
        THEN insert_one(d, "stock",
                 [kode_barang |-> k, stok |-> delta,
                  satuan |-> satuan, nama_barang |-> nama])
        ELSE [d EXCEPT !.stock[i].stok = @ + delta,
                       !.stock[i].satuan = satuan,
                       !.stock[i].nama_barang = nama]

\* (claim C11's mutant: the quantity goes under "$setOnInsert" too, so an
\* existing entry is never adjusted)
update_one_insert_only(d, k, delta, satuan, nama) ==
    LET i == FirstIndex(d.stock, "kode_barang", k)
    IN  IF i = 0
        THEN insert_one(d, "stock",
                 [kode_barang |-> k, stok |-> delta,
                  satuan |-> satuan, nama_barang |-> nama])
        ELSE d

\* collection("stock").update_one({"kode_barang": k},
\*     {"$inc": {"stok": delta}, "$setOnInsert": {satuan, nama_barang}},
\*     upsert=True): one atomic operation of the store
update_one_inc(d, k, delta, satuan, nama) ==
    LET i == FirstIndex(d.stock, "kode_barang", k)
    IN  IF i = 0
        THEN insert_one(d, "stock",
                 [kode_barang |-> k, stok |-> delta,
                  satuan |-> satuan, nama_barang |-> nama])
        ELSE [d EXCEPT !.stock[i].stok = @ + delta]

---------------------------------------------------------------------------
(* Responses and frames.                                                   *)

NoToken == [sub |-> "", role |-> "", key |-> ""]

HTTPException(status, detail) ==
    [status |-> status, detail |-> detail, token |-> NoToken, docs |-> <<>>]

Ok(message) ==
    [status |-> 200, detail |-> message, token |-> NoToken, docs |-> <<>>]

\* a list of documents returned to the caller
Listing(docs) ==
    [status |-> 200, detail |-> <<>>, token |-> NoToken, docs |-> docs]

NoResp == [status |-> 0, detail |-> <<>>, token |-> NoToken, docs |-> <<>>]

NoData == [none |-> TRUE]

Idle == [op |-> "idle", pc |-> "done", token |-> NoToken, data |-> NoData,
         i |-> 0, resp |-> NoResp]

\* a request as the framework hands it to the handler
Call(op, token, data) ==
    [op |-> op, pc |-> "start", token |-> token, data |-> data,
     i |-> 1, resp |-> NoResp]

Goto(d, fr, pc) == [db |-> d, fr |-> [fr EXCEPT !.pc = pc]]

GotoAt(d, fr, pc, i) == [db |-> d, fr |-> [fr EXCEPT !.pc = pc, !.i = i]]

Raise(d, fr, status, detail) ==
    [db |-> d,
     fr |-> [fr EXCEPT !.pc = "done", !.resp = HTTPException(status, detail)]]

Return(d, fr, r) == [db |-> d, fr |-> [fr EXCEPT !.pc = "done", !.resp = r]]

---------------------------------------------------------------------------
(* Auth utilities.                                                         *)

\* passlib bcrypt: a hash verifies exactly the password it was made from
get_password_hash(password) == <<"bcrypt", password>>

verify_password(plain_password, hashed_password) ==
    hashed_password = <<"bcrypt", plain_password>>

\* (claim C9's mutant: the subject goes under another key than "sub")
create_access_token_nosub(data) ==
    [sub |-> "", role |-> data.role, key |-> SECRET_KEY]

\* jwt.encode(data, SECRET_KEY): the payload signed with the key; no "exp"
create_access_token(data) ==
    [sub |-> data.sub, role |-> data.role, key |-> SECRET_KEY]

\* jwt.decode(token, SECRET_KEY) raises JWTError unless signed with the key
jwt_decodes(token) == token.key = SECRET_KEY

\* get_current_user: [status, detail, user]; status 200 carries the user
NoUser == [email |-> "", password_hash |-> <<>>, role |-> ""]

get_current_user(d, token) ==
    IF token = NoToken
    THEN [status |-> 401, detail |-> <<"Not authenticated">>, user |-> NoUser]
    ELSE IF ~jwt_decodes(token)
    THEN [status |-> 401, detail |-> <<"Invalid token">>, user |-> NoUser]
    ELSE IF token.sub = ""
    THEN [status |-> 401, detail |-> <<"Invalid token">>, user |-> NoUser]
    ELSE IF ~found(collection(d, "users"), "email", token.sub)
    THEN [status |-> 401, detail |-> <<"User not found">>, user |-> NoUser]
    ELSE [status |-> 200, detail |-> <<>>,
          user |-> Head(find(collection(d, "users"), "email", token.sub))]

\* (claim C8's mutant: the role check is dropped)
require_admin_never(user) == FALSE

\* require_admin(user): TRUE when it raises 403
require_admin_raises(user) == user.role # "admin"

---------------------------------------------------------------------------
(* Bootstrap and auth endpoints.                                           *)

\* (claim C15's mutant: the admin is inserted without counting first)
ensure_admin_always(d, fr) ==
    CASE fr.pc = "start" -> Goto(d, fr, "L87")
      [] fr.pc = "L87" ->
            Return(insert_one(d, "users",
                       [email |-> AdminEmail,
                        password_hash |-> get_password_hash(AdminPassword),
                        role |-> "admin"]),
                   fr, NoResp)

\* ensure_admin (startup event): count_documents, then insert_one
ensure_admin(d, fr) ==
    CASE fr.pc = "start" ->
            IF find(collection(d, "users"), "role", "admin") = <<>>
            THEN Goto(d, fr, "L87")
            ELSE Return(d, fr, NoResp)
      [] fr.pc = "L87" ->
            Return(insert_one(d, "users",
                       [email |-> AdminEmail,
                        password_hash |-> get_password_hash(AdminPassword),
                        role |-> "admin"]),
                   fr, NoResp)

\* POST /api/auth/login; data = [email, password]
login(d, fr) ==
    LET users == find(collection(d, "users"), "email", fr.data.email)
    IN  IF users = <<>>
           \/ ~verify_password(fr.data.password, Head(users).password_hash)
        THEN Raise(d, fr, 401, <<"Email atau password salah">>)
        ELSE Return(d, fr,
                 [status |-> 200, detail |-> <<"bearer">>,
                  token |-> create_access_token(
                      [sub |-> fr.data.email, role |-> Head(users).role]),
                  docs |-> <<>>])

\* schemas.Users: role must match ^(admin|staff)$
Users_valid(data) == data.role \in {"admin", "staff"}

\* POST /api/auth/register; data = [email, password, role]
register(d, fr) ==
    CASE fr.pc = "start" ->
            LET cur == get_current_user(d, fr.token)
            IN  IF cur.status # 200
                THEN Raise(d, fr, cur.status, cur.detail)
                ELSE IF require_admin_raises(cur.user)
                THEN Raise(d, fr, 403, <<"Admin only">>)
                ELSE Goto(d, fr, "L122")
      [] fr.pc = "L122" ->
            IF found(collection(d, "users"), "email", fr.data.email)
            THEN Raise(d, fr, 400, <<"Email sudah terdaftar">>)
            ELSE IF ~Users_valid(fr.data)
            THEN Raise(d, fr, 500, <<"Internal Server Error">>)
            ELSE Goto(d, fr, "L131")
      [] fr.pc = "L131" ->
            Return(create_document(d, "users",
                       [email |-> fr.data.email,
                        password_hash |-> get_password_hash(fr.data.password),
                        role |-> fr.data.role]),
                   fr, Ok(<<"User berhasil dibuat">>))

---------------------------------------------------------------------------
(* Utility for auto codes.                                                 *)

\* the characters of the codes, in code-point order
Alphabet == <<"-", "0", "1", "2", "3", "4", "5", "6", "7", "8", "9",
              "A", "B", "C", "D", "E", "I", "K", "L", "N", "O", "P", "S",
              "U", "V", "X">>

Digits == <<"0", "1", "2", "3", "4", "5", "6", "7", "8", "9">>

Ord(c) == CHOOSE i \in 1..Len(Alphabet) : Alphabet[i] = c

IsDigit(c) == c \in Range(Digits)

DigitVal(c) == (CHOOSE i \in 1..10 : Digits[i] = c) - 1

\* {f: {"$regex": "^" + prefix}} for a prefix without regex metacharacters
StartsWith(s, prefix) ==
    /\ Len(s) >= Len(prefix)
    /\ SubSeq(s, 1, Len(prefix)) = prefix

\* binary string order, the order of sort=[(f, -1)]
LexLess(a, b) ==
    \E i \in 1..(Len(b)) :
        /\ \A j \in 1..(i - 1) : j <= Len(a) /\ a[j] = b[j]
        /\ \/ Len(a) = i - 1
           \/ Len(a) >= i /\ Ord(a[i]) < Ord(b[i])

\* re.search(r"(\d+)$", s).group(1): the maximal trailing run of digits
RECURSIVE TrailingDigits(_)
TrailingDigits(s) ==
    IF s = <<>> \/ ~IsDigit(s[Len(s)])
    THEN <<>>
    ELSE Append(TrailingDigits(SubSeq(s, 1, Len(s) - 1)), s[Len(s)])

\* int(digits)
RECURSIVE ParseInt(_)
ParseInt(ds) ==
    IF ds = <<>> THEN 0
    ELSE 10 * ParseInt(SubSeq(ds, 1, Len(ds) - 1)) + DigitVal(ds[Len(ds)])

\* str(num), num >= 0
RECURSIVE Str(_)
Str(num) ==
    IF num < 10 THEN <<Digits[num + 1]>>
    ELSE Append(Str(num \div 10), Digits[(num % 10) + 1])

\* s.zfill(pad)
RECURSIVE zfill(_, _)
zfill(s, pad) == IF Len(s) >= pad THEN s ELSE zfill(<<"0">> \o s, pad)

\* find_one({f: {"$regex": f"^{prefix}"}}, sort=[(f, -1)]): the matches
\* that no other match follows in the order; <<>> when nothing matches
last_matches(coll, f, prefix) ==
    LET m == SelectSeq(coll, LAMBDA doc : StartsWith(doc[f], prefix))
    IN  SelectSeq(m, LAMBDA doc :
            \A j \in 1..Len(m) : ~LexLess(doc[f], m[j][f]))

\* (claim C12's mutant: the sort ascending, sort=[(f, 1)])
next_code_ascending(d, prefix, pad, field, coll) ==
    LET all  == SelectSeq(collection(d, coll),
                          LAMBDA doc : StartsWith(doc[field], prefix))
        last == SelectSeq(all, LAMBDA doc :
                    \A j \in 1..Len(all) : ~LexLess(all[j][field], doc[field]))
        m    == IF last = <<>> THEN <<>> ELSE TrailingDigits(Head(last)[field])
        num  == IF last = <<>> THEN 1
                ELSE IF m # <<>> THEN ParseInt(m) + 1 ELSE 1
    IN  prefix \o zfill(Str(num), pad)

\* (claim C7's mutant: find_one without the sort, the first match)
next_code_unsorted(d, prefix, pad, field, coll) ==
    LET last == SelectSeq(collection(d, coll),
                          LAMBDA doc : StartsWith(doc[field], prefix))
        m    == IF last = <<>> THEN <<>> ELSE TrailingDigits(Head(last)[field])
        num  == IF last = <<>> THEN 1
                ELSE IF m # <<>> THEN ParseInt(m) + 1 ELSE 1
    IN  prefix \o zfill(Str(num), pad)

next_code(d, prefix, pad, field, coll) ==
    LET last == last_matches(collection(d, coll), field, prefix)
        m    == IF last = <<>> THEN <<>> ELSE TrailingDigits(Head(last)[field])
        num  == IF last = <<>> THEN 1
                ELSE IF m # <<>> THEN ParseInt(m) + 1 ELSE 1
    IN  prefix \o zfill(Str(num), pad)

\* GET /api/autocode/{barang,supplier,customer,invoice,sales}
AutocodeEndpoints ==
    { [prefix |-> <<"K", "O", "D", "E", "-">>, pad |-> 3,
       field |-> "kode_barang", coll |-> "barang"],
      [prefix |-> <<"S", "U", "P">>, pad |-> 3,
       field |-> "kode_supplier", coll |-> "supplier"],
      [prefix |-> <<"C", "U", "S">>, pad |-> 3,
       field |-> "kode_customer", coll |-> "customer"],
      [prefix |-> <<"I", "N", "V", "-">>, pad |-> 3,
       field |-> "nomor_faktur", coll |-> "pembelian"],
      [prefix |-> <<"S", "L", "-">>, pad |-> 3,
       field |-> "nomor_penjualan", coll |-> "penjualan"] }

\* data is one of AutocodeEndpoints
autocode(d, fr) ==
    CASE fr.pc = "start" ->
            LET cur == get_current_user(d, fr.token)
            IN  IF cur.status # 200
                THEN Raise(d, fr, cur.status, cur.detail)
                ELSE Goto(d, fr, "L139")
      [] fr.pc = "L139" ->
            Return(d, fr,
                [status |-> 200,
                 detail |-> next_code(d, fr.data.prefix, fr.data.pad,
                                      fr.data.field, fr.data.coll),
                 token |-> NoToken, docs |-> <<>>])

---------------------------------------------------------------------------
(* Master data.                                                            *)

\* (claim C4's mutant: the uniqueness check is dropped)
code_exists_never(d, coll, field, code) == FALSE

\* the uniqueness check: collection(coll).find_one({field: code})
code_exists(d, coll, field, code) == found(collection(d, coll), field, code)

\* the three POST /api/{barang,supplier,customer} handlers share one shape:
\* role check, uniqueness check on the code field, create_document
create_master(d, fr, coll, field, exists_msg, ok_msg) ==
    CASE fr.pc = "start" ->
            LET cur == get_current_user(d, fr.token)
            IN  IF cur.status # 200
                THEN Raise(d, fr, cur.status, cur.detail)
                ELSE IF cur.user.role # "admin"
                THEN Raise(d, fr, 403,
                         <<"Hanya admin yang bisa membuat master data">>)
                ELSE Goto(d, fr, "check")
      [] fr.pc = "check" ->
            IF code_exists(d, coll, field, fr.data[field])
            THEN Raise(d, fr, 400, exists_msg)
            ELSE Goto(d, fr, "insert")
      [] fr.pc = "insert" ->
            Return(create_document(d, coll, fr.data), fr, Ok(ok_msg))

\* (claim C17's mutant: creating an item also opens its ledger entry at 0)
create_barang_opens_ledger(d, fr) ==
    LET s == create_master(d, fr, "barang", "kode_barang",
                           <<"Kode barang sudah ada">>, <<"Barang dibuat">>)
    IN  IF s.fr.pc = "done" /\ s.fr.resp.status = 200
        THEN [db |-> update_one_inc(s.db, fr.data.kode_barang, 0,
                                    fr.data.satuan, fr.data.nama_barang),
              fr |-> s.fr]
        ELSE s

\* POST /api/barang; data = [kode_barang, nama_barang, satuan]
create_barang(d, fr) ==
    create_master(d, fr, "barang", "kode_barang",
                  <<"Kode barang sudah ada">>, <<"Barang dibuat">>)

\* POST /api/supplier; data = [kode_supplier, nama_supplier]
create_supplier(d, fr) ==
    create_master(d, fr, "supplier", "kode_supplier",
                  <<"Kode supplier sudah ada">>, <<"Supplier dibuat">>)

\* POST /api/customer; data = [kode_customer, nama_customer]
create_customer(d, fr) ==
    create_master(d, fr, "customer", "kode_customer",
                  <<"Kode customer sudah ada">>, <<"Customer dibuat">>)

---------------------------------------------------------------------------
(* Lists, autocomplete searches and reports: the endpoints that only read. *)

\* .limit(10) of the search endpoints
SearchLimit == 10

\* size: int = 50 of the list endpoints
PageSize == 50

\* re.search(term, s) for a term without regex metacharacters
Contains(s, term) ==
    \E i \in 1..(Len(s) - Len(term) + 1) :
        SubSeq(s, i, i + Len(term) - 1) = term

\* {"$or": [{name: {"$regex": term, "$options": "i"}},
\*          {code: {"$regex": term, "$options": "i"}}]}
\* for terms made of digits and dashes: no name holds a digit or a dash, so
\* a name matches the empty term only, and case does not matter
matches_term(doc, field, term) == term = <<>> \/ Contains(doc[field], term)

\* cursor.skip(n).limit(m)
skip_limit(docs, n, m) ==
    SubSeq(docs, n + 1, IF Len(docs) < n + m THEN Len(docs) ELSE n + m)

\* the endpoints that only read, and what each reads
ReadEndpoints ==
    { [kind |-> "list", coll |-> "barang", field |-> "kode_barang"],
      [kind |-> "list", coll |-> "supplier", field |-> "kode_supplier"],
      [kind |-> "list", coll |-> "customer", field |-> "kode_customer"],
      [kind |-> "search", coll |-> "supplier", field |-> "kode_supplier"],
      [kind |-> "search", coll |-> "barang", field |-> "kode_barang"],
      [kind |-> "search", coll |-> "customer", field |-> "kode_customer"],
      [kind |-> "laporan", coll |-> "pembelian", field |-> "kode_supplier"],
      [kind |-> "laporan", coll |-> "barangmasuk", field |-> "kode_barang"],
      [kind |-> "laporan", coll |-> "barngkeluar", field |-> "kode_barang"],
      [kind |-> "laporan", coll |-> "penjualan", field |-> "kode_customer"],
      [kind |-> "laporan", coll |-> "stock", field |-> "kode_barang"] }

\* data = [endpoint (one of ReadEndpoints), term, page]; term <<>> stands for
\* an absent q / filter
read_documents(d, fr) ==
    LET e    == fr.data.endpoint
        coll == collection(d, e.coll)
    IN
    CASE fr.pc = "start" ->
            LET cur == get_current_user(d, fr.token)
            IN  IF cur.status # 200
                THEN Raise(d, fr, cur.status, cur.detail)
                ELSE Goto(d, fr, "find")
      [] fr.pc = "find" ->
            CASE e.kind = "list" ->
                    Return(d, fr, Listing(skip_limit(
                        SelectSeq(coll, LAMBDA doc :
                            matches_term(doc, e.field, fr.data.term)),
                        (fr.data.page - 1) * PageSize, PageSize)))
              [] e.kind = "search" ->
                    Return(d, fr, Listing(skip_limit(
                        SelectSeq(coll, LAMBDA doc :
                            matches_term(doc, e.field, fr.data.term)),
                        0, SearchLimit)))
              [] e.kind = "laporan" ->
                    Return(d, fr, Listing(
                        IF fr.data.term = <<>> \/ e.coll = "stock" THEN coll
                        ELSE find(coll, e.field, fr.data.term)))

---------------------------------------------------------------------------
(* Transactions.                                                           *)

BarangNotFound(kode) == <<"Barang">> \o kode \o <<"tidak ditemukan">>

StokNotEnough(kode) == <<"Stok">> \o kode \o <<"tidak mencukupi">>

\* (claim C3's mutant: the existence check is forgotten)
barang_missing_skipped(d, kode) == FALSE

\* (claim C20's mutant: "if br" where the code has "if not br")
barang_missing_inverted(d, kode) ==
    found(collection(d, "barang"), "kode_barang", kode)

\* br = collection("barang").find_one({"kode_barang": kode}); not br
barang_missing(d, kode) == ~found(collection(d, "barang"), "kode_barang", kode)

\* (claim C13's mutant: a missing ledger entry counts as quantity 0)
stock_insufficient_missing_zero(d, kode, qty) ==
    LET st == find(collection(d, "stock"), "kode_barang", kode)
    IN  IF st = <<>> THEN 0 < qty ELSE Head(st).stok < qty

\* (claim C10's mutant: the sufficiency check is left out)
stock_insufficient_never(d, kode, qty) == FALSE

\* (claim C2's mutant: the comparison is the wrong way round)
stock_insufficient_reversed(d, kode, qty) ==
    LET st == find(collection(d, "stock"), "kode_barang", kode)
    IN  st # <<>> /\ Head(st).stok > qty

\* st = collection("stock").find_one(..); st and st.get("stok", 0) < qty
stock_insufficient(d, kode, qty) ==
    LET st == find(collection(d, "stock"), "kode_barang", kode)
    IN  st # <<>> /\ Head(st).stok < qty

\* POST /api/transaksi/pembelian
\* data = [nomor_faktur, kode_supplier, items]
\* each item = [kode_barang, nama_barang, satuan, qty]
create_pembelian(d, fr) ==
    LET items == fr.data.items
        it    == items[fr.i]
    IN
    CASE fr.pc = "start" ->
            LET cur == get_current_user(d, fr.token)
            IN  IF cur.status # 200
                THEN Raise(d, fr, cur.status, cur.detail)
                ELSE Goto(d, fr, "L271")
      [] fr.pc = "L271" ->
            IF ~found(collection(d, "supplier"), "kode_supplier",
                      fr.data.kode_supplier)
            THEN Raise(d, fr, 400, <<"Supplier tidak ditemukan">>)
            ELSE IF items = <<>> THEN Goto(d, fr, "L280")
            ELSE GotoAt(d, fr, "L276", 1)
      [] fr.pc = "L276" ->
            IF barang_missing(d, it.kode_barang)
            THEN Raise(d, fr, 400, BarangNotFound(it.kode_barang))
            ELSE IF fr.i < Len(items) THEN GotoAt(d, fr, "L276", fr.i + 1)
            ELSE Goto(d, fr, "L280")
      [] fr.pc = "L280" ->
            LET d1 == create_document(d, "pembelian", fr.data)
            IN  IF items = <<>>
                THEN Return(d1, fr, Ok(<<"Pembelian disimpan">>))
                ELSE GotoAt(d1, fr, "L283", 1)
      [] fr.pc = "L283" ->
            LET d1 == update_one_inc(d, it.kode_barang, it.qty,
                                     it.satuan, it.nama_barang)
            IN  IF fr.i < Len(items) THEN GotoAt(d1, fr, "L283", fr.i + 1)
                ELSE Return(d1, fr, Ok(<<"Pembelian disimpan">>))

\* (claim C14's mutant: the ledger is adjusted before the record is saved)
create_barang_masuk_ledger_first(d, fr) ==
    CASE fr.pc = "start" ->
            LET cur == get_current_user(d, fr.token)
            IN  IF cur.status # 200
                THEN Raise(d, fr, cur.status, cur.detail)
                ELSE Goto(d, fr, "L292")
      [] fr.pc = "L292" ->
            IF barang_missing(d, fr.data.kode_barang)
            THEN Raise(d, fr, 400, <<"Barang tidak ditemukan">>)
            ELSE Goto(d, fr, "L295")
      [] fr.pc = "L295" ->
            Goto(update_one_inc(d, fr.data.kode_barang, fr.data.qty,
                                fr.data.satuan, fr.data.nama_barang),
                 fr, "L296")
      [] fr.pc = "L296" ->
            Return(create_document(d, "barangmasuk", fr.data),
                   fr, Ok(<<"Barang masuk disimpan">>))

\* POST /api/transaksi/barang-masuk
\* data = [kode_barang, nama_barang, satuan, qty]
create_barang_masuk(d, fr) ==
    CASE fr.pc = "start" ->
            LET cur == get_current_user(d, fr.token)
            IN  IF cur.status # 200
                THEN Raise(d, fr, cur.status, cur.detail)
                ELSE Goto(d, fr, "L292")
      [] fr.pc = "L292" ->
            IF barang_missing(d, fr.data.kode_barang)
            THEN Raise(d, fr, 400, <<"Barang tidak ditemukan">>)
            ELSE Goto(d, fr, "L295")
      [] fr.pc = "L295" ->
            Goto(create_document(d, "barangmasuk", fr.data), fr, "L296")
      [] fr.pc = "L296" ->
            Return(update_one_inc(d, fr.data.kode_barang, fr.data.qty,
                                  fr.data.satuan, fr.data.nama_barang),
                   fr, Ok(<<"Barang masuk disimpan">>))

\* POST /api/transaksi/barang-keluar
\* data = [kode_barang, nama_barang, satuan, qty]
create_barang_keluar(d, fr) ==
    CASE fr.pc = "start" ->
            LET cur == get_current_user(d, fr.token)
            IN  IF cur.status # 200
                THEN Raise(d, fr, cur.status, cur.detail)
                ELSE Goto(d, fr, "L305")
      [] fr.pc = "L305" ->
            IF barang_missing(d, fr.data.kode_barang)
            THEN Raise(d, fr, 400, <<"Barang tidak ditemukan">>)
            ELSE Goto(d, fr, "L309")
      [] fr.pc = "L309" ->
            IF stock_insufficient(d, fr.data.kode_barang, fr.data.qty)
            THEN Raise(d, fr, 400, <<"Stok tidak mencukupi">>)
            ELSE Goto(d, fr, "L312")
      [] fr.pc = "L312" ->
            Goto(create_document(d, "barngkeluar", fr.data), fr, "L313")
      [] fr.pc = "L313" ->
            Return(update_one_inc(d, fr.data.kode_barang, 0 - fr.data.qty,
                                  fr.data.satuan, fr.data.nama_barang),
                   fr, Ok(<<"Barang keluar disimpan">>))

\* POST /api/transaksi/penjualan
\* data = [nomor_penjualan, kode_customer, items]
\* each item = [kode_barang, nama_barang, satuan, qty]
create_penjualan(d, fr) ==
    LET items == fr.data.items
        it    == items[fr.i]
    IN
    CASE fr.pc = "start" ->
            LET cur == get_current_user(d, fr.token)
            IN  IF cur.status # 200
                THEN Raise(d, fr, cur.status, cur.detail)
                ELSE Goto(d, fr, "L322")
      [] fr.pc = "L322" ->
            IF ~found(collection(d, "customer"), "kode_customer",
                      fr.data.kode_customer)
            THEN Raise(d, fr, 400, <<"Customer tidak ditemukan">>)
            ELSE IF items = <<>> THEN Goto(d, fr, "L333")
            ELSE GotoAt(d, fr, "L327", 1)
      [] fr.pc = "L327" ->
            IF barang_missing(d, it.kode_barang)
            THEN Raise(d, fr, 400, BarangNotFound(it.kode_barang))
            ELSE Goto(d, fr, "L330")
      [] fr.pc = "L330" ->
            IF stock_insufficient(d, it.kode_barang, it.qty)
            THEN Raise(d, fr, 400, StokNotEnough(it.kode_barang))
            ELSE IF fr.i < Len(items) THEN GotoAt(d, fr, "L327", fr.i + 1)
            ELSE Goto(d, fr, "L333")
      [] fr.pc = "L333" ->
            LET d1 == create_document(d, "penjualan", fr.data)
            IN  IF items = <<>>
                THEN Return(d1, fr, Ok(<<"Penjualan disimpan">>))
                ELSE GotoAt(d1, fr, "L335", 1)
      [] fr.pc = "L335" ->
            LET d1 == update_one_inc(d, it.kode_barang, 0 - it.qty,
                                     it.satuan, it.nama_barang)
            IN  IF fr.i < Len(items) THEN GotoAt(d1, fr, "L335", fr.i + 1)
                ELSE Return(d1, fr, Ok(<<"Penjualan disimpan">>))

---------------------------------------------------------------------------
(* Running a handler.                                                      *)

\* one step of the handler the frame belongs to
Step(d, fr) ==
    CASE fr.op = "ensure_admin"         -> ensure_admin(d, fr)
      [] fr.op = "login"                -> login(d, fr)
      [] fr.op = "register"             -> register(d, fr)
      [] fr.op = "autocode"             -> autocode(d, fr)
      [] fr.op = "read_documents"       -> read_documents(d, fr)
      [] fr.op = "create_barang"        -> create_barang(d, fr)
      [] fr.op = "create_supplier"      -> create_supplier(d, fr)
      [] fr.op = "create_customer"      -> create_customer(d, fr)
      [] fr.op = "create_pembelian"     -> create_pembelian(d, fr)
      [] fr.op = "create_barang_masuk"  -> create_barang_masuk(d, fr)
      [] fr.op = "create_barang_keluar" -> create_barang_keluar(d, fr)
      [] fr.op = "create_penjualan"     -> create_penjualan(d, fr)

\* the handler run to its response with no other request in between
RECURSIVE Run(_, _)
Run(d, fr) ==
    IF fr.pc = "done" THEN [db |-> d, fr |-> fr]
    ELSE LET s == Step(d, fr) IN Run(s.db, s.fr)

\* the outcome of a whole request: [db, fr], fr.resp the response
Handle(d, op, token, data) == Run(d, Call(op, token, data))

---------------------------------------------------------------------------
(* Codes, tokens and request bodies.                                       *)

MkCode(prefix, n) == prefix \o zfill(Str(n), 3)

KODE == <<"K", "O", "D", "E", "-">>
SUP == <<"S", "U", "P">>
CUS == <<"C", "U", "S">>
INV == <<"I", "N", "V", "-">>
SL == <<"S", "L", "-">>

BarangCodes == {MkCode(KODE, 1), MkCode(KODE, 2)}
SupplierCodes == {MkCode(SUP, 1), MkCode(SUP, 2)}
CustomerCodes == {MkCode(CUS, 1), MkCode(CUS, 2)}
FakturNumbers == {MkCode(INV, 1), MkCode(INV, 2)}
PenjualanNumbers == {MkCode(SL, 1), MkCode(SL, 2)}

StaffEmail == "staff@sae-bakery.local"
Emails == {AdminEmail, StaffEmail}
Passwords == {AdminPassword, "rahasia"}

\* what a caller can present as ?token=: nothing, a token signed with the
\* key for a known email, or a token signed with another key
AdminToken == create_access_token([sub |-> AdminEmail, role |-> "admin"])
StaffToken == create_access_token([sub |-> StaffEmail, role |-> "staff"])
ForgedToken == [sub |-> AdminEmail, role |-> "admin", key |-> "forged"]
Tokens == {NoToken, AdminToken, StaffToken, ForgedToken}

\* the name and unit snapshots a transaction line carries
Snapshots == {[nama_barang |-> "Roti", satuan |-> "Pcs"],
              [nama_barang |-> "Kue", satuan |-> "Kg"]}

\* schemas: qty is a float with no constraint on its sign
QtyValues == {0 - 1} \cup (1..MaxQty)

LinesOf(codes, snapshots, qtys) ==
    {[kode_barang |-> k, nama_barang |-> s.nama_barang,
      satuan |-> s.satuan, qty |-> q] :
        k \in codes, s \in snapshots, q \in qtys}

\* every line / request body of the bounded universe
Lines == LinesOf(BarangCodes, Snapshots, QtyValues)

\* the item lists of the request bodies: lines of one snapshot
ItemLists ==
    SeqsOf(LinesOf(BarangCodes, {[nama_barang |-> "Roti", satuan |-> "Pcs"]},
                   QtyValues), 0, MaxLines)

LoginReqs == [email : Emails \cup {"nobody@sae-bakery.local"},
              password : Passwords \cup {"salah"}]

RegisterReqs == [email : Emails, password : {"rahasia"},
                 role : {"admin", "staff", "tamu"}]

BarangReqs == [kode_barang : BarangCodes, nama_barang : {"Roti"},
               satuan : {"Pcs"}]

SupplierReqs == [kode_supplier : SupplierCodes,
                 nama_supplier : {"Toko A", "Toko B"}]

CustomerReqs == [kode_customer : CustomerCodes, nama_customer : {"Ani"}]

\* what a caller sends to the endpoints that only read
ReadReqs ==
    [endpoint : ReadEndpoints,
     term : {<<>>, <<"0", "0", "1">>, MkCode(KODE, 1), MkCode(SUP, 1)},
     page : {1, 2}]

PembelianReqs == [nomor_faktur : {MkCode(INV, 1)},
                  kode_supplier : SupplierCodes, items : ItemLists]

BarangMasukReqs == Lines

BarangKeluarReqs == Lines

PenjualanReqs == [nomor_penjualan : {MkCode(SL, 1)},
                  kode_customer : CustomerCodes, items : ItemLists]

\* item lists whose lines carry either snapshot, one unit each
SnapshotItemLists ==
    SeqsOf(LinesOf(BarangCodes, Snapshots, {1}), 1, MaxLines)

\* the transaction requests the sequential specification sends: positive
\* quantities and one snapshot (the handlers' outcome on every body above
\* is checked in each state these requests reach)
SentLines ==
    LinesOf(BarangCodes, {[nama_barang |-> "Roti", satuan |-> "Pcs"]},
            1..MaxQty)

SentItemLists == SeqsOf(SentLines, 0, MaxLines)

SentPembelian == [nomor_faktur : FakturNumbers,
                  kode_supplier : SupplierCodes, items : SentItemLists]

SentPenjualan == [nomor_penjualan : PenjualanNumbers,
                  kode_customer : CustomerCodes, items : SentItemLists]

---------------------------------------------------------------------------
(* The sequential specifications: requests are handled one at a time.      *)

EmptyDb ==
    [users |-> <<>>, barang |-> <<>>, supplier |-> <<>>, customer |-> <<>>,
     pembelian |-> <<>>, barangmasuk |-> <<>>, barngkeluar |-> <<>>,
     penjualan |-> <<>>, stock |-> <<>>]

\* the store after the bootstrap and a first round of master data: the
\* admin and one staff user, item KODE-001, supplier SUP001, customer CUS001
RECURSIVE HandleAll(_, _)
HandleAll(d, calls) ==
    IF calls = <<>> THEN d
    ELSE HandleAll(Handle(d, Head(calls)[1], Head(calls)[2],
                          Head(calls)[3]).db, Tail(calls))

SeededDb ==
    HandleAll(EmptyDb,
        << <<"ensure_admin", NoToken, NoData>>,
           <<"register", AdminToken,
             [email |-> StaffEmail, password |-> "rahasia",
              role |-> "staff"]>>,
           <<"create_barang", AdminToken,
             [kode_barang |-> MkCode(KODE, 1), nama_barang |-> "Roti",
              satuan |-> "Pcs"]>>,
           <<"create_supplier", AdminToken,
             [kode_supplier |-> MkCode(SUP, 1), nama_supplier |-> "Toko A"]>>,
           <<"create_customer", AdminToken,
             [kode_customer |-> MkCode(CUS, 1), nama_customer |-> "Ani"]>> >>)

\* the documents of the four transaction collections
TxCount(d) ==
    Len(d.pembelian) + Len(d.barangmasuk) + Len(d.barngkeluar)
        + Len(d.penjualan)

NoProcs == <<>>

\* the process starts: the startup event runs before any request is served
Startup ==
    /\ db' = Handle(db, "ensure_admin", NoToken, NoData).db
    /\ started' = TRUE
    /\ UNCHANGED procs

\* a request handled to its response leaves the store out.db; the response
\* out.fr.resp goes to the caller
Served(out) ==
    /\ started
    /\ TxCount(out.db) <= MaxTx
    /\ db' = out.db

Login ==
    \E data \in LoginReqs :
        /\ Served(Handle(db, "login", NoToken, data))
        /\ UNCHANGED <<started, procs>>

Register ==
    \E t \in Tokens, data \in RegisterReqs :
        /\ Served(Handle(db, "register", t, data))
        /\ UNCHANGED <<started, procs>>

Autocode ==
    \E t \in Tokens, data \in AutocodeEndpoints :
        /\ Served(Handle(db, "autocode", t, data))
        /\ UNCHANGED <<started, procs>>

ReadDocuments ==
    \E t \in Tokens, data \in ReadReqs :
        /\ Served(Handle(db, "read_documents", t, data))
        /\ UNCHANGED <<started, procs>>

CreateBarang ==
    \E t \in Tokens, data \in BarangReqs :
        /\ Served(Handle(db, "create_barang", t, data))
        /\ UNCHANGED <<started, procs>>

CreateSupplier ==
    \E t \in Tokens, data \in SupplierReqs :
        /\ Served(Handle(db, "create_supplier", t, data))
        /\ UNCHANGED <<started, procs>>

CreateCustomer ==
    \E t \in Tokens, data \in CustomerReqs :
        /\ Served(Handle(db, "create_customer", t, data))
        /\ UNCHANGED <<started, procs>>

CreatePembelian ==
    \E data \in SentPembelian :
        /\ Served(Handle(db, "create_pembelian", AdminToken, data))
        /\ UNCHANGED <<started, procs>>

CreateBarangMasuk ==
    \E data \in SentLines :
        /\ Served(Handle(db, "create_barang_masuk", StaffToken, data))
        /\ UNCHANGED <<started, procs>>

CreateBarangKeluar ==
    \E data \in SentLines :
        /\ Served(Handle(db, "create_barang_keluar", StaffToken, data))
        /\ UNCHANGED <<started, procs>>

CreatePenjualan ==
    \E data \in SentPenjualan :
        /\ Served(Handle(db, "create_penjualan", AdminToken, data))
        /\ UNCHANGED <<started, procs>>

\* the transaction processor over a store that holds master data
Init ==
    /\ db = SeededDb
    /\ started = TRUE
    /\ procs = NoProcs

Next ==
    \/ CreateBarang
    \/ CreatePembelian
    \/ CreateBarangMasuk
    \/ CreateBarangKeluar
    \/ CreatePenjualan

Spec == Init /\ [][Next]_vars

\* identity, access and master data from the empty store
InitMaster ==
    /\ db = EmptyDb
    /\ started = FALSE
    /\ procs = NoProcs

NextMaster ==
    \/ Startup
    \/ Login
    \/ Register
    \/ Autocode
    \/ ReadDocuments
    \/ CreateBarang
    \/ CreateSupplier
    \/ CreateCustomer

SpecMaster == InitMaster /\ [][NextMaster]_vars

---------------------------------------------------------------------------
(* The ledger and the transaction history.                                 *)

HasEntry(d, k) == found(collection(d, "stock"), "kode_barang", k)

\* stock.stok of item k, 0 when the ledger has no entry for k
Stok(d, k) ==
    IF HasEntry(d, k)
    THEN Head(find(collection(d, "stock"), "kode_barang", k)).stok
    ELSE 0

\* the quantity the lines (or single-line documents) of s give item k
RECURSIVE QtyOf(_, _)
QtyOf(s, k) ==
    IF s = <<>> THEN 0
    ELSE (IF Head(s).kode_barang = k THEN Head(s).qty ELSE 0)
            + QtyOf(Tail(s), k)

\* the same over the item lists of the headers of coll
RECURSIVE HeaderQtyOf(_, _)
HeaderQtyOf(coll, k) ==
    IF coll = <<>> THEN 0
    ELSE QtyOf(Head(coll).items, k) + HeaderQtyOf(Tail(coll), k)

\* StockIn + Purchase lines - StockOut - Sale lines, from the collections
Net(d, k) ==
    QtyOf(d.barangmasuk, k) + HeaderQtyOf(d.pembelian, k)
        - QtyOf(d.barngkeluar, k) - HeaderQtyOf(d.penjualan, k)

LedgerCodes(d) == BarangCodes \cup {e.kode_barang : e \in Range(d.stock)}

Balanced(d) == \A k \in LedgerCodes(d) : Stok(d, k) = Net(d, k)

\* the transaction collections and the ledger
TxState(d) ==
    <<d.pembelian, d.barangmasuk, d.barngkeluar, d.penjualan, d.stock>>

Rejected(out) == out.fr.resp.status >= 400

Accepted(out) == out.fr.resp.status = 200

---------------------------------------------------------------------------
(* Claims checked under Spec.                                              *)

\* C1: with requests handled one at a time, in every reachable state and
\* for every item the ledger quantity (0 without an entry) is the sum of the
\* accepted StockIn and Purchase quantities minus the accepted StockOut and
\* Sale quantities; the same holds after any further request of the bounded
\* universe (negative quantities included), accepted or rejected.
C1_LedgerIsNetOfAccepted ==
    /\ Balanced(db)
    /\ \A data \in Lines :
          /\ Balanced(Handle(db, "create_barang_masuk", StaffToken, data).db)
          /\ Balanced(Handle(db, "create_barang_keluar", StaffToken, data).db)
    /\ \A data \in PembelianReqs :
          Balanced(Handle(db, "create_pembelian", AdminToken, data).db)
    /\ \A data \in PenjualanReqs :
          Balanced(Handle(db, "create_penjualan", AdminToken, data).db)

\* C1 witness: a purchase and a draw-down of the same item are both on
\* record and the ledger shows what is left.
C1_Witness ==
    \E k \in BarangCodes :
        /\ HeaderQtyOf(db.pembelian, k) = 2
        /\ QtyOf(db.barngkeluar, k) = 1
        /\ Stok(db, k) = 1

\* a line of a Sale that asks for more than the existing ledger entry holds
OverdrawnLine(d, items) ==
    \E n \in 1..Len(items) :
        /\ HasEntry(d, items[n].kode_barang)
        /\ items[n].qty > Stok(d, items[n].kode_barang)

\* C2: a StockOut, or a Sale with a line, whose qty exceeds the quantity of
\* the item's existing ledger entry is rejected, and the ledger and every
\* transaction collection are left as they were.
C2_OverdrawRejected ==
    /\ \A t \in Tokens, data \in BarangKeluarReqs :
          HasEntry(db, data.kode_barang) /\ data.qty > Stok(db, data.kode_barang)
            => LET out == Handle(db, "create_barang_keluar", t, data)
               IN  Rejected(out) /\ TxState(out.db) = TxState(db)
    /\ \A t \in Tokens, data \in PenjualanReqs :
          OverdrawnLine(db, data.items)
            => LET out == Handle(db, "create_penjualan", t, data)
               IN  Rejected(out) /\ TxState(out.db) = TxState(db)

\* C2 witness: the ledger holds 1 of an item, and both a StockOut of 2 and a
\* Sale whose second line asks for 2 are answered "Stok ... tidak mencukupi".
C2_Witness ==
    \E k \in BarangCodes :
        /\ HasEntry(db, k) /\ Stok(db, k) = 1
        /\ \E data \in BarangKeluarReqs :
              /\ data.kode_barang = k /\ data.qty = 2
              /\ Handle(db, "create_barang_keluar", StaffToken, data).fr.resp
                    = HTTPException(400, <<"Stok tidak mencukupi">>)
        /\ \E data \in PenjualanReqs :
              /\ Len(data.items) = 2
              /\ data.items[1].kode_barang = k /\ data.items[1].qty = 1
              /\ data.items[2].kode_barang = k /\ data.items[2].qty = 2
              /\ Handle(db, "create_penjualan", AdminToken, data).fr.resp
                    = HTTPException(400, StokNotEnough(k))

\* a line that fails validation: an unknown item code
UnknownLine(d, items) ==
    \E n \in 1..Len(items) :
        ~found(collection(d, "barang"), "kode_barang", items[n].kode_barang)

\* C3: a Purchase whose supplier or one of whose items does not exist, and
\* a Sale whose customer or one of whose items does not exist or one of
\* whose lines is overdrawn, is rejected and leaves the ledger and every
\* transaction collection exactly as before: no header, no line applied.
C3_FailedValidationChangesNothing ==
    /\ \A t \in Tokens, data \in PembelianReqs :
          (\/ ~found(db.supplier, "kode_supplier", data.kode_supplier)
           \/ UnknownLine(db, data.items))
            => LET out == Handle(db, "create_pembelian", t, data)
               IN  Rejected(out) /\ out.db = db
    /\ \A t \in Tokens, data \in PenjualanReqs :
          (\/ ~found(db.customer, "kode_customer", data.kode_customer)
           \/ UnknownLine(db, data.items)
           \/ OverdrawnLine(db, data.items))
            => LET out == Handle(db, "create_penjualan", t, data)
               IN  Rejected(out) /\ out.db = db

\* C3 witness: the ledger has an entry, and a two-line Sale whose first
\* line is valid and whose second line names an unknown item is answered
\* "Barang ... tidak ditemukan", as is such a Purchase.
C3_Witness ==
    /\ db.stock # <<>>
    /\ \E data \in PenjualanReqs :
          /\ found(db.customer, "kode_customer", data.kode_customer)
          /\ Len(data.items) = 2
          /\ ~UnknownLine(db, <<data.items[1]>>)
          /\ ~OverdrawnLine(db, <<data.items[1]>>)
          /\ data.items[1].qty > 0
          /\ HasEntry(db, data.items[1].kode_barang)
          /\ UnknownLine(db, <<data.items[2]>>)
          /\ Handle(db, "create_penjualan", AdminToken, data).fr.resp
                = HTTPException(400, BarangNotFound(data.items[2].kode_barang))
    /\ \E data \in PembelianReqs :
          /\ found(db.supplier, "kode_supplier", data.kode_supplier)
          /\ Len(data.items) = 2
          /\ ~UnknownLine(db, <<data.items[1]>>)
          /\ UnknownLine(db, <<data.items[2]>>)
          /\ Handle(db, "create_pembelian", AdminToken, data).fr.resp
                = HTTPException(400, BarangNotFound(data.items[2].kode_barang))

\* no two documents of coll share the value of field f
UniqueOn(coll, f) ==
    \A i, j \in 1..Len(coll) : i # j => coll[i][f] # coll[j][f]

\* C6: no two persisted Purchases share nomor_faktur and no two persisted
\* Sales share nomor_penjualan.
C6_NumbersUnique ==
    /\ UniqueOn(db.pembelian, "nomor_faktur")
    /\ UniqueOn(db.penjualan, "nomor_penjualan")

\* every line of items names an existing item that has no ledger entry
AllWithoutEntry(d, items) ==
    \A n \in 1..Len(items) :
        /\ ~barang_missing(d, items[n].kode_barang)
        /\ ~HasEntry(d, items[n].kode_barang)

\* C13: a StockOut, or a Sale line, for an existing item without a ledger
\* entry is not checked for sufficiency: it is accepted whatever its qty and
\* creates the item's ledger entry at -qty (for a Sale, at minus the
\* quantities of its lines for that item).
C13_NoEntrySkipsCheck ==
    /\ \A data \in BarangKeluarReqs :
          AllWithoutEntry(db, <<data>>)
            => LET out == Handle(db, "create_barang_keluar", StaffToken, data)
               IN  /\ Accepted(out)
                   /\ HasEntry(out.db, data.kode_barang)
                   /\ Stok(out.db, data.kode_barang) = 0 - data.qty
    /\ \A data \in PenjualanReqs :
          (/\ found(db.customer, "kode_customer", data.kode_customer)
           /\ AllWithoutEntry(db, data.items))
            => LET out == Handle(db, "create_penjualan", AdminToken, data)
               IN  /\ Accepted(out)
                   /\ \A n \in 1..Len(data.items) :
                        LET k == data.items[n].kode_barang
                        IN  /\ HasEntry(out.db, k)
                            /\ Stok(out.db, k) = 0 - QtyOf(data.items, k)

\* C13 witness: item KODE-002 exists without a ledger entry while KODE-001
\* has one; a StockOut of 2 and a one-line Sale of 2 of KODE-002 are each
\* accepted and leave its new ledger entry at -2.
C13_Witness ==
    LET k == MkCode(KODE, 2)
    IN  /\ HasEntry(db, MkCode(KODE, 1))
        /\ ~barang_missing(db, k) /\ ~HasEntry(db, k)
        /\ \E data \in BarangKeluarReqs :
              /\ data.kode_barang = k /\ data.qty = 2
              /\ LET out == Handle(db, "create_barang_keluar", StaffToken,
                                   data)
                 IN  Accepted(out) /\ Stok(out.db, k) = 0 - 2
        /\ \E data \in PenjualanReqs :
              /\ Len(data.items) = 1
              /\ data.items[1].kode_barang = k /\ data.items[1].qty = 2
              /\ LET out == Handle(db, "create_penjualan", AdminToken, data)
                 IN  Accepted(out) /\ Stok(out.db, k) = 0 - 2

\* the first line of items that names item k
FirstLineFor(items, k) ==
    items[CHOOSE n \in 1..Len(items) :
            /\ items[n].kode_barang = k
            /\ \A m \in 1..(n - 1) : items[m].kode_barang # k]

\* from d to d2, by a request with these lines: every entry d had keeps its
\* code, name and unit, and every entry created carries the name and unit of
\* the first line that names its item
SnapshotsKept(d, d2, items) ==
    /\ Len(d2.stock) >= Len(d.stock)
    /\ \A i \in 1..Len(d.stock) :
          /\ d2.stock[i].kode_barang = d.stock[i].kode_barang
          /\ d2.stock[i].nama_barang = d.stock[i].nama_barang
          /\ d2.stock[i].satuan = d.stock[i].satuan
    /\ \A i \in (Len(d.stock) + 1)..Len(d2.stock) :
          LET e == d2.stock[i]
          IN  /\ \E n \in 1..Len(items) : items[n].kode_barang = e.kode_barang
              /\ e.nama_barang
                    = FirstLineFor(items, e.kode_barang).nama_barang
              /\ e.satuan = FirstLineFor(items, e.kode_barang).satuan

\* C16: a ledger entry's name and unit are set when it is created, from the
\* transaction that creates it; every later adjustment, by any of the four
\* transactions and also with another name or unit, changes its quantity
\* only.
C16_SnapshotsSetOnce ==
    /\ \A data \in Lines :
          /\ SnapshotsKept(db, Handle(db, "create_barang_masuk", StaffToken,
                                      data).db, <<data>>)
          /\ SnapshotsKept(db, Handle(db, "create_barang_keluar", StaffToken,
                                      data).db, <<data>>)
    /\ \A items \in SnapshotItemLists :
          /\ SnapshotsKept(db,
                Handle(db, "create_pembelian", AdminToken,
                       [nomor_faktur |-> MkCode(INV, 1),
                        kode_supplier |-> MkCode(SUP, 1),
                        items |-> items]).db, items)
          /\ SnapshotsKept(db,
                Handle(db, "create_penjualan", AdminToken,
                       [nomor_penjualan |-> MkCode(SL, 1),
                        kode_customer |-> MkCode(CUS, 1),
                        items |-> items]).db, items)

\* C16 witness: the entry of KODE-001 was created as Roti / Pcs and holds 2;
\* a StockIn and a Sale of it that say Kue / Kg are accepted and change its
\* quantity, and it still reads Roti / Pcs.
C16_Witness ==
    LET k   == MkCode(KODE, 1)
        ln  == [kode_barang |-> k, nama_barang |-> "Kue", satuan |-> "Kg",
                qty |-> 1]
        in  == Handle(db, "create_barang_masuk", StaffToken, ln)
        out == Handle(db, "create_penjualan", AdminToken,
                      [nomor_penjualan |-> MkCode(SL, 1),
                       kode_customer |-> MkCode(CUS, 1), items |-> <<ln>>])
    IN  /\ HasEntry(db, k) /\ Stok(db, k) = 2
        /\ db.stock[1].nama_barang = "Roti" /\ db.stock[1].satuan = "Pcs"
        /\ Accepted(in) /\ Stok(in.db, k) = 3
        /\ in.db.stock[1].nama_barang = "Roti"
        /\ in.db.stock[1].satuan = "Pcs"
        /\ Accepted(out) /\ Stok(out.db, k) = 1
        /\ out.db.stock[1].nama_barang = "Roti"
        /\ out.db.stock[1].satuan = "Pcs"

---------------------------------------------------------------------------
(* Claims checked under SpecMaster.                                        *)

\* the caller get_current_user resolves the token to, and its role
Resolves(d, t) == get_current_user(d, t).status = 200

RoleOf(d, t) == get_current_user(d, t).user.role

\* the three master-data creates, with bodies that vary the name
MasterCreates ==
    { [op |-> "create_barang", coll |-> "barang", field |-> "kode_barang",
       conflict |-> <<"Kode barang sudah ada">>,
       bodies |-> [kode_barang : BarangCodes, nama_barang : {"Roti", "Kue"},
                   satuan : {"Pcs", "Kg"}]],
      [op |-> "create_supplier", coll |-> "supplier",
       field |-> "kode_supplier",
       conflict |-> <<"Kode supplier sudah ada">>,
       bodies |-> SupplierReqs],
      [op |-> "create_customer", coll |-> "customer",
       field |-> "kode_customer",
       conflict |-> <<"Kode customer sudah ada">>,
       bodies |-> [kode_customer : CustomerCodes,
                   nama_customer : {"Ani", "Budi"}]] }

\* C4: an admin's create of an Item, Supplier or Customer whose code is
\* already in the collection fails with the duplicate-code error (the
\* Conflict of the error taxonomy, surfaced as HTTP 400 "Kode ... sudah ada")
\* and changes nothing; with a new code it succeeds and appends exactly
\* that one record.
C4_DuplicateCodeConflict ==
    \A m \in MasterCreates, t \in Tokens :
        Resolves(db, t) /\ RoleOf(db, t) = "admin"
          => \A data \in m.bodies :
                LET out == Handle(db, m.op, t, data)
                IN  IF \E doc \in Range(db[m.coll]) :
                            doc[m.field] = data[m.field]
                    THEN /\ out.fr.resp = HTTPException(400, m.conflict)
                         /\ out.db = db
                    ELSE /\ Accepted(out)
                         /\ out.db = [db EXCEPT ![m.coll] = Append(@, data)]

\* C4 witness: SUP001 was created as "Toko A" and a second code after it;
\* creating SUP001 again as "Toko B" is answered with the duplicate error.
C4_Witness ==
    /\ Len(db.supplier) = 2
    /\ db.supplier[1] =
          [kode_supplier |-> MkCode(SUP, 1), nama_supplier |-> "Toko A"]
    /\ Handle(db, "create_supplier", AdminToken,
              [kode_supplier |-> MkCode(SUP, 1),
               nama_supplier |-> "Toko B"]).fr.resp
          = HTTPException(400, <<"Kode supplier sudah ada">>)

\* C8: for a caller whose resolved role is not admin, register and the three
\* master-data creates fail with 403 Forbidden and leave the store unchanged.
C8_NonAdminForbidden ==
    \A t \in Tokens :
        Resolves(db, t) /\ RoleOf(db, t) # "admin"
          => /\ \A data \in RegisterReqs :
                    LET out == Handle(db, "register", t, data)
                    IN  out.fr.resp.status = 403 /\ out.db = db
             /\ \A m \in MasterCreates :
                    \A data \in m.bodies :
                        LET out == Handle(db, m.op, t, data)
                        IN  out.fr.resp.status = 403 /\ out.db = db

\* C8 witness: a staff user is registered and the staff caller's register
\* and create requests, for an email and codes not yet taken, get 403.
C8_Witness ==
    /\ Resolves(db, StaffToken) /\ RoleOf(db, StaffToken) = "staff"
    /\ db.barang = <<>>
    /\ Handle(db, "create_barang", StaffToken,
              [kode_barang |-> MkCode(KODE, 1), nama_barang |-> "Roti",
               satuan |-> "Pcs"]).fr.resp
          = HTTPException(403, <<"Hanya admin yang bisa membuat master data">>)
    /\ Handle(db, "register", StaffToken,
              [email |-> AdminEmail, password |-> "rahasia",
               role |-> "staff"]).fr.resp
          = HTTPException(403, <<"Admin only">>)

\* the password does not verify against the stored hash of the email's user
BadCredentials(d, data) ==
    \/ \A u \in Range(d.users) : u.email # data.email
    \/ Head(find(d.users, "email", data.email)).password_hash
          # get_password_hash(data.password)

\* C9: once the bootstrap has run from a store without an admin, login with
\* the seeded admin's email and default password succeeds and returns a
\* token that get_current_user resolves to a user whose role is admin; login
\* with an unknown email or a password that does not verify fails with 401
\* and issues no token.
C9_SeededAdminLogin ==
    started =>
        /\ LET out == Handle(db, "login", NoToken,
                          [email |-> AdminEmail, password |-> AdminPassword])
           IN  /\ Accepted(out)
               /\ out.fr.resp.token # NoToken
               /\ Resolves(out.db, out.fr.resp.token)
               /\ RoleOf(out.db, out.fr.resp.token) = "admin"
               /\ get_current_user(out.db, out.fr.resp.token).user.email
                     = AdminEmail
        /\ \A data \in LoginReqs :
              BadCredentials(db, data)
                => LET out == Handle(db, "login", NoToken, data)
                   IN  /\ out.fr.resp.status = 401
                       /\ out.fr.resp.token = NoToken
                       /\ out.db = db

\* C9 witness: the bootstrap has seeded the admin, a staff user has been
\* registered since, and a login with a wrong password is refused.
C9_Witness ==
    /\ started
    /\ Len(db.users) = 2
    /\ db.users[1].email = AdminEmail /\ db.users[1].role = "admin"
    /\ Handle(db, "login", NoToken,
              [email |-> AdminEmail, password |-> "salah"]).fr.resp.status
          = 401
    /\ Handle(db, "login", NoToken,
              [email |-> AdminEmail, password |-> AdminPassword]).fr.resp.token
          = AdminToken

\* the store after the startup bootstrap has run on d
Bootstrapped(d) == Handle(d, "ensure_admin", NoToken, NoData).db

HasAdmin(d) == found(collection(d, "users"), "role", "admin")

\* C15: the bootstrap is idempotent: it inserts the seeded admin only when
\* no user has role admin, so once it has run, running it again, any number
\* of times, leaves the users collection (and the rest of the store)
\* unchanged; and after any run at least one admin exists.
C15_BootstrapIdempotent ==
    /\ HasAdmin(Bootstrapped(db))
    /\ HasAdmin(db) => Bootstrapped(db) = db
    /\ Bootstrapped(Bootstrapped(db)) = Bootstrapped(db)
    /\ started => Bootstrapped(db) = db

\* C15 witness: the bootstrap has run and seeded the admin, a staff user was
\* registered after it, and another run of the bootstrap changes nothing.
C15_Witness ==
    /\ started
    /\ Len(db.users) = 2
    /\ db.users[1].email = AdminEmail /\ db.users[1].role = "admin"
    /\ db.users[2].role = "staff"
    /\ Bootstrapped(db) = db

---------------------------------------------------------------------------
(* The code generator over stored codes of every bounded shape.            *)

SuffixChars == {"0", "1", "2", "9", "A"}

\* the codes an admin may have stored: the prefix and any suffix, and codes
\* the filter must leave out
StoredCodes ==
    {KODE \o sfx : sfx \in SeqsOf(SuffixChars, 0, MaxSuffix)}
        \cup {<<"K", "O", "D">>, <<"K", "U", "E", "-", "0", "9">>}

BarangDoc(code) ==
    [kode_barang |-> code, nama_barang |-> "Roti", satuan |-> "Pcs"]

\* the store holds up to MaxStored items with distinct codes
InitCode ==
    /\ \E codes \in SeqsOf(StoredCodes, 0, MaxStored) :
          /\ \A i, j \in 1..Len(codes) : i # j => codes[i] # codes[j]
          /\ db = [SeededDb EXCEPT
                      !.barang = [i \in 1..Len(codes) |-> BarangDoc(codes[i])]]
    /\ started = TRUE
    /\ procs = NoProcs

\* the admin asks /api/autocode/barang and creates the item under that code
AutocodeThenCreate ==
    /\ Len(db.barang) <= MaxStored
    /\ LET code == Handle(db, "autocode", AdminToken,
                       [prefix |-> KODE, pad |-> 3, field |-> "kode_barang",
                        coll |-> "barang"]).fr.resp.detail
       IN  db' = Handle(db, "create_barang", AdminToken, BarangDoc(code)).db
    /\ UNCHANGED <<started, procs>>

NextCode == AutocodeThenCreate

SpecCode == InitCode /\ [][NextCode]_vars

\* 10^n
RECURSIVE Pow10(_)
Pow10(n) == IF n = 0 THEN 1 ELSE 10 * Pow10(n - 1)

\* the number a digit string writes
DecimalValue(ds) ==
    SumSeq([i \in 1..Len(ds) |-> DigitVal(ds[i]) * Pow10(Len(ds) - i)])

AllDigits(s) == \A i \in 1..Len(s) : IsDigit(s[i])

\* t is n zero-padded to pad digits
ZeroPadded(t, n, pad) ==
    /\ t # <<>> /\ AllDigits(t)
    /\ DecimalValue(t) = n
    /\ Len(t) >= pad
    /\ Len(t) > pad => t[1] # "0"

\* the length of the maximal trailing run of digits of s
TrailingRun(s) ==
    CHOOSE k \in 0..Len(s) :
        /\ \A i \in (Len(s) - k + 1)..Len(s) : IsDigit(s[i])
        /\ k < Len(s) => ~IsDigit(s[Len(s) - k])

\* the number next_code must append, from the stored codes
ExpectedNumber(codes, prefix) ==
    LET matching == {c \in codes : StartsWith(c, prefix)}
        last == CHOOSE c \in matching :
                    \A m \in matching : m = c \/ LexLess(m, c)
        k == TrailingRun(last)
    IN  IF matching = {} \/ k = 0 THEN 1
        ELSE DecimalValue(SubSeq(last, Len(last) - k + 1, Len(last))) + 1

CodePrefixes == {KODE, <<"K">>, SUP}

\* C7: next_code(prefix, pad) is the prefix followed by a number zero-padded
\* to pad digits: 1 when no stored code begins with the prefix or the
\* lexicographically last such code has no trailing digits, else one more
\* than that code's maximal trailing run of digits; with KODE-001 and
\* KODE-002 stored it is KODE-003.
C7_NextCode ==
    /\ \A prefix \in CodePrefixes, pad \in {2, 3} :
          LET codes == {doc.kode_barang : doc \in Range(db.barang)}
              code  == next_code(db, prefix, pad, "kode_barang", "barang")
          IN  /\ StartsWith(code, prefix)
              /\ ZeroPadded(SubSeq(code, Len(prefix) + 1, Len(code)),
                            ExpectedNumber(codes, prefix), pad)
    /\ {doc.kode_barang : doc \in Range(db.barang)}
            = {MkCode(KODE, 1), MkCode(KODE, 2)}
          => next_code(db, KODE, 3, "kode_barang", "barang")
                = <<"K", "O", "D", "E", "-", "0", "0", "3">>

\* C7 witness: KODE-001 and KODE-002 were stored, KODE-003 was generated and
\* created after them, and the next code is KODE-004.
C7_Witness ==
    /\ Len(db.barang) = 3
    /\ db.barang[1].kode_barang = <<"K", "O", "D", "E", "-", "0", "0", "2">>
    /\ db.barang[2].kode_barang = <<"K", "O", "D", "E", "-", "0", "0", "1">>
    /\ db.barang[3].kode_barang = <<"K", "O", "D", "E", "-", "0", "0", "3">>
    /\ next_code(db, KODE, 3, "kode_barang", "barang")
          = <<"K", "O", "D", "E", "-", "0", "0", "4">>

\* what follows the prefix in a code that begins with it
SuffixOf(code, prefix) == SubSeq(code, Len(prefix) + 1, Len(code))

\* the stored codes of the barang collection that begin with prefix
Matching(d, prefix) ==
    {c \in {doc.kode_barang : doc \in Range(d.barang)} :
        StartsWith(c, prefix)}

\* code is the prefix followed by a number of lo..hi digits
NumericSuffix(code, prefix, lo, hi) ==
    /\ AllDigits(SuffixOf(code, prefix))
    /\ Len(SuffixOf(code, prefix)) \in lo..hi

\* the record selected as last carries the greatest number, and the code
\* returned carries a greater number than every stored code and is new
SelectsGreatest(d, prefix, pad) ==
    LET last == last_matches(collection(d, "barang"), "kode_barang", prefix)
        code == next_code(d, prefix, pad, "kode_barang", "barang")
    IN  /\ \A c \in Matching(d, prefix) :
              /\ DecimalValue(SuffixOf(c, prefix))
                    <= DecimalValue(SuffixOf(Head(last).kode_barang, prefix))
              /\ DecimalValue(SuffixOf(c, prefix))
                    < DecimalValue(SuffixOf(code, prefix))
        /\ ~found(collection(d, "barang"), "kode_barang", code)

\* C12 as stated: whenever every stored code beginning with the prefix has a
\* numeric suffix of at most pad digits, the record next_code selects as
\* lexicographically last has the numerically greatest suffix, and the code
\* returned has a number greater than every stored one and is not stored.
C12_AtMostPadDigits ==
    \A prefix \in CodePrefixes, pad \in {2, 3} :
        (\A c \in Matching(db, prefix) : NumericSuffix(c, prefix, 1, pad))
            => SelectsGreatest(db, prefix, pad)

\* C12 as amended: the same whenever every stored code beginning with the
\* prefix is the prefix followed by exactly pad digits.
C12_ExactlyPadDigits ==
    \A prefix \in CodePrefixes, pad \in {2, 3} :
        (\A c \in Matching(db, prefix) : NumericSuffix(c, prefix, pad, pad))
            => SelectsGreatest(db, prefix, pad)

\* C12 witness: KODE-012 and then KODE-009 were stored, KODE-012 was
\* selected, KODE-013 was returned and created, and KODE-014 comes next.
C12_Witness ==
    /\ Len(db.barang) = 3
    /\ db.barang[1].kode_barang = <<"K", "O", "D", "E", "-", "0", "1", "2">>
    /\ db.barang[2].kode_barang = <<"K", "O", "D", "E", "-", "0", "0", "9">>
    /\ db.barang[3].kode_barang = <<"K", "O", "D", "E", "-", "0", "1", "3">>
    /\ next_code(db, KODE, 3, "kode_barang", "barang")
          = <<"K", "O", "D", "E", "-", "0", "1", "4">>


---------------------------------------------------------------------------
(* The concurrent specification: each worker serves one request, and the   *)
(* store calls of the requests in progress interleave.  Every call to the  *)
(* store is atomic; nothing else is.                                       *)

Workers == 1..NWorkers

\* the store when the workers start: the seeded master data and one
\* StockIn of q for item KODE-001, so that its ledger entry holds q
RaceDb(q) ==
    Handle(SeededDb, "create_barang_masuk", StaffToken,
           [kode_barang |-> MkCode(KODE, 1), nama_barang |-> "Roti",
            satuan |-> "Pcs", qty |-> q]).db

InitRace ==
    /\ \E q \in 1..MaxQty : db = RaceDb(q)
    /\ started = TRUE
    /\ procs = [w \in Workers |-> Idle]

\* the lines of the concurrent requests: positive quantities of the stocked
\* item KODE-001 and of KODE-002, which only a concurrent create brings in
RaceLines ==
    LinesOf(BarangCodes, {[nama_barang |-> "Roti", satuan |-> "Pcs"]},
            1..MaxQty)

RaceItemLists == SeqsOf(RaceLines, 1, MaxLines)

\* worker w, idle, takes a request from the framework
Takes(w, op, token, data) ==
    /\ started
    /\ procs[w] = Idle
    /\ procs' = [procs EXCEPT ![w] = Call(op, token, data)]

AcceptCreateBarang ==
    \E w \in Workers :
        /\ Takes(w, "create_barang", AdminToken,
                  [kode_barang |-> MkCode(KODE, 2), nama_barang |-> "Kue",
                   satuan |-> "Kg"])
        /\ UNCHANGED <<db, started>>

AcceptCreateSupplier ==
    \E w \in Workers, name \in {"Toko A", "Toko B"} :
        /\ Takes(w, "create_supplier", AdminToken,
                  [kode_supplier |-> MkCode(SUP, 2), nama_supplier |-> name])
        /\ UNCHANGED <<db, started>>

AcceptCreateCustomer ==
    \E w \in Workers :
        /\ Takes(w, "create_customer", AdminToken,
                  [kode_customer |-> MkCode(CUS, 2), nama_customer |-> "Budi"])
        /\ UNCHANGED <<db, started>>

AcceptPembelian ==
    \E w \in Workers, items \in RaceItemLists :
        /\ Takes(w, "create_pembelian", AdminToken,
                  [nomor_faktur |-> MkCode(INV, 1),
                   kode_supplier |-> MkCode(SUP, 1), items |-> items])
        /\ UNCHANGED <<db, started>>

AcceptBarangMasuk ==
    \E w \in Workers, data \in RaceLines :
        /\ Takes(w, "create_barang_masuk", StaffToken, data)
        /\ UNCHANGED <<db, started>>

AcceptBarangKeluar ==
    \E w \in Workers, data \in RaceLines :
        /\ Takes(w, "create_barang_keluar", StaffToken, data)
        /\ UNCHANGED <<db, started>>

AcceptPenjualan ==
    \E w \in Workers, items \in RaceItemLists :
        /\ Takes(w, "create_penjualan", AdminToken,
                  [nomor_penjualan |-> MkCode(SL, 1),
                   kode_customer |-> MkCode(CUS, 1), items |-> items])
        /\ UNCHANGED <<db, started>>

\* worker w makes the next store call of its request
StepWorker ==
    \E w \in Workers :
        /\ procs[w].pc # "done"
        /\ LET s == Step(db, procs[w])
           IN  /\ db' = s.db
               /\ procs' = [procs EXCEPT ![w] = s.fr]
        /\ UNCHANGED started

NextRace ==
    \/ AcceptCreateBarang
    \/ AcceptCreateSupplier
    \/ AcceptCreateCustomer
    \/ AcceptPembelian
    \/ AcceptBarangMasuk
    \/ AcceptBarangKeluar
    \/ AcceptPenjualan
    \/ StepWorker

SpecRace == InitRace /\ [][NextRace]_vars

---------------------------------------------------------------------------
(* Claims checked under SpecRace.                                          *)

\* C5: in every reachable state, concurrent creates included, no two barang
\* records share kode_barang, no two supplier records kode_supplier and no
\* two customer records kode_customer.
C5_CodesUnique ==
    /\ UniqueOn(db.barang, "kode_barang")
    /\ UniqueOn(db.supplier, "kode_supplier")
    /\ UniqueOn(db.customer, "kode_customer")

\* worker w's request passes the sufficiency check of line n in this step
PassesCheck(w) ==
    \/ /\ procs[w].op = "create_barang_keluar"
       /\ procs[w].pc = "L309" /\ procs'[w].pc = "L312"
    \/ /\ procs[w].op = "create_penjualan"
       /\ procs[w].pc = "L330" /\ procs'[w].pc \in {"L327", "L333"}

\* the line worker w's frame is at
LineAt(fr) ==
    IF fr.op = "create_penjualan" THEN fr.data.items[fr.i] ELSE fr.data

\* C10 (the check): a StockOut or Sale line passes the sufficiency check
\* only when the item's ledger entry, if it has one, holds at that moment at
\* least the requested quantity; the check writes nothing, and the
\* decrement is a later step.
C10_CheckThenAct ==
    [][\A w \in Workers :
          PassesCheck(w)
            => /\ HasEntry(db, LineAt(procs[w]).kode_barang)
                    => Stok(db, LineAt(procs[w]).kode_barang)
                            >= LineAt(procs[w]).qty
               /\ db' = db]_vars

\* C10 witness (the race): the ledger entry held q >= 0, a StockOut of q and
\* a one-line Sale of q were both accepted, and the ledger ends at -q < 0.
C10_Witness ==
    \E q \in 1..MaxQty :
        /\ QtyOf(db.barangmasuk, MkCode(KODE, 1)) = q
        /\ db.pembelian = <<>>
        /\ procs[1].op = "create_barang_keluar" /\ procs[1].data.qty = q
        /\ procs[1].pc = "done" /\ procs[1].resp.status = 200
        /\ procs[2].op = "create_penjualan"
        /\ Len(procs[2].data.items) = 1 /\ procs[2].data.items[1].qty = q
        /\ procs[2].pc = "done" /\ procs[2].resp.status = 200
        /\ Stok(db, MkCode(KODE, 1)) = 0 - q

\* every worker has answered its request (or never took one)
AllDone == \A w \in Workers : procs[w].pc = "done"

\* what the request of frame fr, if accepted, adds to the ledger of item k
RequestDelta(fr, k) ==
    IF fr.resp.status # 200 THEN 0
    ELSE CASE fr.op = "create_pembelian"     -> QtyOf(fr.data.items, k)
           [] fr.op = "create_barang_masuk"  -> QtyOf(<<fr.data>>, k)
           [] fr.op = "create_barang_keluar" -> 0 - QtyOf(<<fr.data>>, k)
           [] fr.op = "create_penjualan"     -> 0 - QtyOf(fr.data.items, k)
           [] OTHER                          -> 0

\* the ledger quantity of k when the workers started: the set-up StockIn
StartQty(k) == QtyOf(<<Head(db.barangmasuk)>>, k)

\* C11: no update is lost: whatever the interleaving of the store calls of
\* concurrent Purchase, StockIn, StockOut and Sale requests, once all have
\* completed each item's ledger quantity is the quantity it started with
\* plus the deltas of all accepted requests for that item.
C11_NoLostUpdate ==
    AllDone =>
        \A k \in LedgerCodes(db) :
            Stok(db, k)
                = StartQty(k)
                    + SumSeq([w \in Workers |-> RequestDelta(procs[w], k)])

\* C11 witness: a two-line Purchase and a two-line Sale of the same item
\* ran side by side, both were accepted, and the ledger shows their net.
C11_Witness ==
    /\ procs[1].op = "create_pembelian" /\ Len(procs[1].data.items) = 2
    /\ procs[1].pc = "done" /\ procs[1].resp.status = 200
    /\ procs[2].op = "create_penjualan" /\ Len(procs[2].data.items) = 2
    /\ procs[2].pc = "done" /\ procs[2].resp.status = 200
    /\ RequestDelta(procs[1], MkCode(KODE, 1)) = 3
    /\ RequestDelta(procs[2], MkCode(KODE, 1)) = 0 - 2
    /\ Stok(db, MkCode(KODE, 1)) = StartQty(MkCode(KODE, 1)) + 1


\* the lines of items from line i on
LinesFrom(items, i) == SubSeq(items, i, Len(items))

\* what the request of frame fr has still to add to the ledger of item k,
\* once its record is saved: nothing before the save and after the response
PendingDelta(fr, k) ==
    CASE fr.op = "create_pembelian" /\ fr.pc = "L283" ->
            QtyOf(LinesFrom(fr.data.items, fr.i), k)
      [] fr.op = "create_barang_masuk" /\ fr.pc = "L296" ->
            QtyOf(<<fr.data>>, k)
      [] fr.op = "create_barang_keluar" /\ fr.pc = "L313" ->
            0 - QtyOf(<<fr.data>>, k)
      [] fr.op = "create_penjualan" /\ fr.pc = "L335" ->
            0 - QtyOf(LinesFrom(fr.data.items, fr.i), k)
      [] OTHER -> 0

\* C14: the record is saved before the ledger is touched: in every reachable
\* state, the states in the middle of a request included, the ledger holds
\* only deltas of saved transactions, that is, the net of the saved records
\* less the lines that requests in progress have saved but not yet applied.
C14_RecordBeforeLedger ==
    \A k \in LedgerCodes(db) :
        Stok(db, k)
            = Net(db, k) - SumSeq([w \in Workers |-> PendingDelta(procs[w], k)])

\* C14 witness: a two-line Purchase has saved its record and applied its
\* first line only, while a StockIn has saved its record and not yet touched
\* the ledger.
C14_Witness ==
    /\ procs[1].op = "create_pembelian" /\ procs[1].pc = "L283"
    /\ procs[1].i = 2 /\ Len(procs[1].data.items) = 2
    /\ procs[1].data \in Range(db.pembelian)
    /\ procs[2].op = "create_barang_masuk" /\ procs[2].pc = "L296"
    /\ procs[2].data \in Range(db.barangmasuk)
    /\ Stok(db, MkCode(KODE, 1))
          = StartQty(MkCode(KODE, 1)) + procs[1].data.items[1].qty


---------------------------------------------------------------------------
(* Further claims checked under Spec.                                      *)

\* the request leaves the ledger as it is
LedgerUntouched(out) == out.db.stock = db.stock

\* C17: only accepted transactions change the ledger: login, register, the
\* master-data creates, the lists, searches and reports, autocode, and every
\* rejected Purchase, StockIn, StockOut and Sale leave every ledger entry
\* unchanged.
C17_LedgerOnlyByAcceptedTx ==
    /\ \A data \in LoginReqs :
          LedgerUntouched(Handle(db, "login", NoToken, data))
    /\ \A t \in Tokens :
          /\ \A data \in RegisterReqs :
                LedgerUntouched(Handle(db, "register", t, data))
          /\ \A m \in MasterCreates :
                \A data \in m.bodies :
                    LedgerUntouched(Handle(db, m.op, t, data))
          /\ \A data \in AutocodeEndpoints :
                LedgerUntouched(Handle(db, "autocode", t, data))
          /\ \A data \in ReadReqs :
                LedgerUntouched(Handle(db, "read_documents", t, data))
          /\ \A data \in Lines :
                /\ LET out == Handle(db, "create_barang_masuk", t, data)
                   IN  Rejected(out) => LedgerUntouched(out)
                /\ LET out == Handle(db, "create_barang_keluar", t, data)
                   IN  Rejected(out) => LedgerUntouched(out)
          /\ \A data \in PembelianReqs :
                LET out == Handle(db, "create_pembelian", t, data)
                IN  Rejected(out) => LedgerUntouched(out)
          /\ \A data \in PenjualanReqs :
                LET out == Handle(db, "create_penjualan", t, data)
                IN  Rejected(out) => LedgerUntouched(out)

\* C17 witness: the ledger holds an entry; the stock report returns it, an
\* admin creates item KODE-002, and a StockOut of an unknown item is
\* rejected, each with the ledger as before.
C17_Witness ==
    LET report == Handle(db, "read_documents", StaffToken,
                         [endpoint |-> [kind |-> "laporan", coll |-> "stock",
                                        field |-> "kode_barang"],
                          term |-> <<>>, page |-> 1])
        create == Handle(db, "create_barang", AdminToken,
                         [kode_barang |-> MkCode(KODE, 2),
                          nama_barang |-> "Kue", satuan |-> "Kg"])
        keluar == Handle(db, "create_barang_keluar", StaffToken,
                         [kode_barang |-> MkCode(KODE, 2),
                          nama_barang |-> "Kue", satuan |-> "Kg", qty |-> 1])
    IN  /\ db.stock # <<>>
        /\ Accepted(report) /\ report.fr.resp.docs = db.stock
        /\ LedgerUntouched(report)
        /\ Accepted(create) /\ Len(create.db.barang) = Len(db.barang) + 1
        /\ LedgerUntouched(create)
        /\ Rejected(keluar) /\ LedgerUntouched(keluar)

\* C18: with requests handled one at a time, an accepted Sale all of whose
\* lines have qty > 0 and name items whose ledger entries exist and are not
\* negative leaves each of those entries non-negative, also when several of
\* its lines name the same item.
C18_SaleKeepsStockNonNegative ==
    \A data \in PenjualanReqs :
        (\A n \in 1..Len(data.items) :
            /\ data.items[n].qty > 0
            /\ HasEntry(db, data.items[n].kode_barang)
            /\ Stok(db, data.items[n].kode_barang) >= 0)
          => LET out == Handle(db, "create_penjualan", AdminToken, data)
             IN  Accepted(out)
                   => \A n \in 1..Len(data.items) :
                        Stok(out.db, data.items[n].kode_barang) >= 0

\* no item's ledger quantity is lower in d2 than in d
NotLowered(d, d2) ==
    \A k \in LedgerCodes(d) \cup LedgerCodes(d2) : Stok(d2, k) >= Stok(d, k)

\* C19: for every body the schemas accept, negative quantities included, an
\* accepted StockIn or Purchase lowers no item's ledger quantity and an
\* accepted StockOut or Sale raises none.
C19_DeltasHaveTheirSign ==
    /\ \A data \in Lines :
          /\ LET out == Handle(db, "create_barang_masuk", StaffToken, data)
             IN  Accepted(out) => NotLowered(db, out.db)
          /\ LET out == Handle(db, "create_barang_keluar", StaffToken, data)
             IN  Accepted(out) => NotLowered(out.db, db)
    /\ \A data \in PembelianReqs :
          LET out == Handle(db, "create_pembelian", AdminToken, data)
          IN  Accepted(out) => NotLowered(db, out.db)
    /\ \A data \in PenjualanReqs :
          LET out == Handle(db, "create_penjualan", AdminToken, data)
          IN  Accepted(out) => NotLowered(out.db, db)

---------------------------------------------------------------------------
(* Further claims checked under SpecRace.                                  *)

\* every line of items names an item of the barang collection
ItemsKnown(d, items) ==
    \A n \in 1..Len(items) :
        found(collection(d, "barang"), "kode_barang", items[n].kode_barang)

\* every code the ledger and the transaction collections hold is the code
\* of a master record
Integrity(d) ==
    /\ ItemsKnown(d, d.stock)
    /\ ItemsKnown(d, d.barangmasuk)
    /\ ItemsKnown(d, d.barngkeluar)
    /\ \A p \in Range(d.pembelian) :
          /\ found(collection(d, "supplier"), "kode_supplier", p.kode_supplier)
          /\ ItemsKnown(d, p.items)
    /\ \A p \in Range(d.penjualan) :
          /\ found(collection(d, "customer"), "kode_customer", p.kode_customer)
          /\ ItemsKnown(d, p.items)

\* C20: in every reachable state, every ledger entry's item code, every
\* item code of a persisted Purchase, StockIn, StockOut or Sale, every
\* persisted Purchase's supplier code and every persisted Sale's customer
\* code is the code of a record of the corresponding master collection.
C20_ReferentialIntegrity == Integrity(db)

\* C20 witness: item KODE-002 was created while a StockIn of it was being
\* served; the StockIn found it, and its record and ledger entry are stored.
C20_Witness ==
    /\ procs[1].op = "create_barang" /\ procs[1].pc = "done"
    /\ procs[1].resp.status = 200
    /\ procs[2].op = "create_barang_masuk" /\ procs[2].pc = "done"
    /\ procs[2].data.kode_barang = MkCode(KODE, 2)
    /\ procs[2].resp.status = 200
    /\ HasEntry(db, MkCode(KODE, 2))
    /\ Len(db.barangmasuk) = 2

===========================================================================
